---- MODULE Spec2Model ----
(***************************************************************************)
(* Model of the Governor risk engine of Mosaic Vault                       *)
(* (src/src/agents/governor.py): the CPPIEngine's pure computations, the   *)
(* peak_tracker / portfolio_state / risk_events tables it keeps in SQLite, *)
(* and Governor.audit_risk, both as one sequential call and as the         *)
(* interleaving of its database statements when two threads share the     *)
(* store (src/src/web_dashboard.py: the socket handler and the background  *)
(* update loop).                                                           *)
(*                                                                         *)
(* Python floats are modelled as exact rationals [n, d] in lowest terms;   *)
(* rupee amounts are integers.                                             *)
(***************************************************************************)
EXTENDS Integers, Sequences, FiniteSets, TLC

(***************************************************************************)
(* Bounds of the model                                                     *)
(***************************************************************************)
\* number of audits started in one behaviour
MaxAudits == 3
\* number of audits started in one behaviour of the interleaved specification
MaxConcAudits == 2
\* last instant of the wall clock in the interleaved specification
MaxTime == 3
\* number of audits started, and last instant of the wall clock, where one
\* thread runs two audits during one audit of the other
MaxOverlapAudits == 3
MaxOverlapTime == 4

(***************************************************************************)
(* Rational arithmetic                                                     *)
(***************************************************************************)
Abs(x) == IF x < 0 THEN -x ELSE x

Max(a, b) == IF a >= b THEN a ELSE b

RECURSIVE GCD(_, _)
GCD(a, b) == IF b = 0 THEN a ELSE GCD(b, a % b)

\* the rational n/d (d > 0) in lowest terms
Frac(n, d) ==
    LET g == GCD(Abs(n), d)
    IN  [n |-> n \div g, d |-> d \div g]

\* f <= n/d, f < n/d, f >= n/d for a rational f and a literal n/d
FracLeq(f, n, d) == f.n * d <= n * f.d
FracLt(f, n, d) == f.n * d < n * f.d
FracGeq(f, n, d) == f.n * d >= n * f.d

\* f * k for an integer k
FracTimes(f, k) == Frac(f.n * k, f.d)

\* 1.0 - f
OneMinus(f) == Frac(f.d - f.n, f.d)

Zero == Frac(0, 1)
One == Frac(1, 1)

(***************************************************************************)
(* CPPIEngine: configuration                                               *)
(***************************************************************************)
GREEN == "GREEN"
YELLOW == "YELLOW"
RED == "RED"
RiskZone == {GREEN, YELLOW, RED}

\* self.floor_ratio = 0.9, as 9/10
floor_ratio_num == 9
floor_ratio_den == 10

\* variant: a larger GREEN multiplier
multipliers_Aggressive == [z \in RiskZone |->
                              CASE z = GREEN -> 6
                                [] z = YELLOW -> 3
                                [] z = RED -> 1]

\* self.multipliers
multipliers == [z \in RiskZone |->
                   CASE z = GREEN -> 5
                     [] z = YELLOW -> 3
                     [] z = RED -> 1]

\* the default starting value written into an empty peak_tracker
SeedPeak == 100000

EMERGENCY == "EMERGENCY: Liquidate to Liquid BeES immediately"
REDUCE == "RED ZONE: Reduce equity exposure to match CPPI allocation"
CAUTION == "CAUTION: Trim high-beta positions, move to arbitrage funds"
ALL_CLEAR == "ALL CLEAR: Full equity allocation permitted"
Actions == {EMERGENCY, REDUCE, CAUTION, ALL_CLEAR}

(***************************************************************************)
(* CPPIEngine: pure computations                                           *)
(***************************************************************************)
\* variant: the zero guard on the value instead of the peak
CalculateDrawdown_ValueGuard(current_value, peak_value) ==
    IF current_value = 0
    THEN Zero
    ELSE Frac(peak_value - current_value, peak_value)

\* _calculate_drawdown
CalculateDrawdown(current_value, peak_value) ==
    IF peak_value = 0
    THEN Zero
    ELSE Frac(peak_value - current_value, peak_value)

\* variant: the thresholds compared with < instead of <=
DetermineRiskZone_Strict(drawdown_pct) ==
    IF FracLt(drawdown_pct, 5, 100) THEN GREEN
    ELSE IF FracLt(drawdown_pct, 8, 100) THEN YELLOW
    ELSE RED

\* _determine_risk_zone
DetermineRiskZone(drawdown_pct) ==
    IF FracLeq(drawdown_pct, 5, 100) THEN GREEN
    ELSE IF FracLeq(drawdown_pct, 8, 100) THEN YELLOW
    ELSE RED

\* floor = self.floor_ratio * peak_value
FloorValue(peak_value) == Frac(floor_ratio_num * peak_value, floor_ratio_den)

\* variant: the cushion without its max(0, ...)
Cushion_NoClamp(current_value, peak_value) ==
    Frac(floor_ratio_den * current_value - floor_ratio_num * peak_value,
         floor_ratio_den)

\* cushion = max(0, current_value - floor)
Cushion(current_value, peak_value) ==
    Frac(Max(0, floor_ratio_den * current_value - floor_ratio_num * peak_value),
         floor_ratio_den)

\* variant: the equity allocation without its min(1.0, ...)
EquityOf_NoCap(current_value, peak_value, risk_zone) ==
    LET c == Cushion(current_value, peak_value)
    IN  Frac(c.n * multipliers[risk_zone], c.d * current_value)

\* min(1.0, (cushion * multiplier) / current_value), for current_value > 0
EquityOf(current_value, peak_value, risk_zone) ==
    LET c == Cushion(current_value, peak_value)
        num == c.n * multipliers[risk_zone]
        den == c.d * current_value
    IN  IF num >= den THEN One ELSE Frac(num, den)

\* _calculate_cppi_allocation
CalculateCppiAllocation(current_value, peak_value, risk_zone) ==
    LET equity_allocation ==
            IF current_value > 0
            THEN EquityOf(current_value, peak_value, risk_zone)
            ELSE Zero
    IN  [equity |-> equity_allocation, liquid |-> OneMinus(equity_allocation)]

\* variant: the emergency rule with <= 0.3 instead of < 0.3
GetRecommendedAction_Inclusive(risk_zone, equity_allocation) ==
    IF risk_zone = RED
    THEN IF FracLeq(equity_allocation, 3, 10) THEN EMERGENCY ELSE REDUCE
    ELSE IF risk_zone = YELLOW THEN CAUTION
    ELSE ALL_CLEAR

\* variant: the RED comparison the other way round
GetRecommendedAction_Inverted(risk_zone, equity_allocation) ==
    IF risk_zone = RED
    THEN IF FracLt(equity_allocation, 3, 10) THEN REDUCE ELSE EMERGENCY
    ELSE IF risk_zone = YELLOW THEN CAUTION
    ELSE ALL_CLEAR

\* _get_recommended_action
GetRecommendedAction(risk_zone, equity_allocation) ==
    IF risk_zone = RED
    THEN IF FracLt(equity_allocation, 3, 10) THEN EMERGENCY ELSE REDUCE
    ELSE IF risk_zone = YELLOW THEN CAUTION
    ELSE ALL_CLEAR

(***************************************************************************)
(* The store: peak_tracker, portfolio_state, risk_events                   *)
(***************************************************************************)
\* the two threads of web_dashboard.py that call self.governor.audit_risk()
Procs == {"handle_connect", "update_data_loop"}

\* total portfolio values the brokerage collaborator supplies
Values == {-5000, 0, 85000, 92000, 95000, 97000, 100000, 110000}

\* values of the audits in the interleaved and in the combined specification
ConcValues == {85000, 93000, 105000, 110000}

VARIABLES
    now,              \* datetime.now(), as an instant number
    peak_tracker,     \* the row of table peak_tracker
    portfolio_state,  \* the rows of table portfolio_state, in insertion order
    risk_events,      \* the rows of table risk_events, in insertion order
    ops,              \* number of operations started so far
    observed_max,     \* history: the largest of the seed and the values seen
    pc,               \* position of each thread inside audit_risk
    loc,              \* the local variables of each thread's audit_risk
    response,         \* the last result audit_risk returned to each thread
    call,             \* the last direct call of a pure engine method
    input,            \* history: the sequential operation run last, its inputs
    last_audit_time   \* Governor.last_audit_time, as an instant number

vars == <<now, peak_tracker, portfolio_state, risk_events, ops, observed_max,
          pc, loc, response, call, input, last_audit_time>>

NoState == [timestamp |-> 0, total_value |-> 0, peak_value |-> 0,
            drawdown_pct |-> Zero, risk_zone |-> "NONE",
            equity_allocation |-> Zero, liquid_allocation |-> Zero,
            recommended_action |-> "NONE"]

NoLocals == [total_value |-> 0, peak_value |-> 0, current_peak |-> 0,
             state |-> NoState, prev_zone |-> "NONE"]

NoResponse == [status |-> "NONE"]

NoCall == [fn |-> "none"]

NoInput == [op |-> "none"]

\* self.last_audit_time = None
NoAuditTime == 0

\* _get_peak_value: SELECT peak_value FROM peak_tracker ORDER BY id DESC LIMIT 1
GetPeakValue(tracker) == tracker.peak_value

\* variant: the guard of _update_peak_value with != instead of >
IsNewPeak_NotEqual(new_value, current_peak) == new_value # current_peak

\* variant: the guard of _update_peak_value with >= instead of >
IsNewPeak_OrEqual(new_value, current_peak) == new_value >= current_peak

\* the guard of _update_peak_value
IsNewPeak(new_value, current_peak) == new_value > current_peak

\* the UPDATE of _update_peak_value
WritePeak(tracker, new_value, t) ==
    [peak_value |-> new_value, peak_date |-> t, updated_at |-> t]

\* variant: the peak row never written
UpdatePeakValue_NoWrite(tracker, new_value, t) == tracker

\* _update_peak_value, read and write in one step
UpdatePeakValue(tracker, new_value, t) ==
    IF IsNewPeak(new_value, GetPeakValue(tracker))
    THEN WritePeak(tracker, new_value, t)
    ELSE tracker

\* variant: audit_risk keeps the peak it read, without the max
UpdatedPeak_Stale(peak_value, total_value) == peak_value

\* peak_value = max(peak_value, total_value)
UpdatedPeak(peak_value, total_value) == Max(peak_value, total_value)

\* audit_risk: the PortfolioState it builds from the value and the peak it read
MakeState(total_value, peak_read, t) ==
    LET peak_value == UpdatedPeak(peak_read, total_value)
        drawdown_pct == CalculateDrawdown(total_value, peak_value)
        risk_zone == DetermineRiskZone(drawdown_pct)
        alloc == CalculateCppiAllocation(total_value, peak_value, risk_zone)
    IN  [timestamp |-> t,
         total_value |-> total_value,
         peak_value |-> peak_value,
         drawdown_pct |-> drawdown_pct,
         risk_zone |-> risk_zone,
         equity_allocation |-> alloc.equity,
         liquid_allocation |-> alloc.liquid,
         recommended_action |-> GetRecommendedAction(risk_zone, alloc.equity)]

\* variant: the drawdown and the targets returned as the stored fractions
MakeResponse_Unscaled(state) ==
    [status |-> state.risk_zone,
     total_value |-> state.total_value,
     peak_value |-> state.peak_value,
     drawdown_pct |-> state.drawdown_pct,
     floor_value |-> FloorValue(state.peak_value),
     cushion |-> Cushion(state.total_value, state.peak_value),
     equity_allocation_target |-> state.equity_allocation,
     liquid_allocation_target |-> state.liquid_allocation,
     action |-> state.recommended_action,
     timestamp |-> state.timestamp]

\* audit_risk: the response dictionary (holdings are passed through, left out)
MakeResponse(state) ==
    [status |-> state.risk_zone,
     total_value |-> state.total_value,
     peak_value |-> state.peak_value,
     drawdown_pct |-> FracTimes(state.drawdown_pct, 100),
     floor_value |-> FloorValue(state.peak_value),
     cushion |-> Cushion(state.total_value, state.peak_value),
     equity_allocation_target |-> FracTimes(state.equity_allocation, 100),
     liquid_allocation_target |-> FracTimes(state.liquid_allocation, 100),
     action |-> state.recommended_action,
     timestamp |-> state.timestamp]

\* audit_risk: the result of the except branch
ErrorResponse(t) == [status |-> "ERROR", timestamp |-> t]

\* timestamp is the PRIMARY KEY of portfolio_state and of risk_events
HasKey(table, t) == \E i \in 1..Len(table) : table[i].timestamp = t

\* variant: a snapshot with the value of the newest row is not stored again
SavePortfolioState_Dedup(table, state) ==
    IF table # <<>> /\ table[Len(table)].total_value = state.total_value
    THEN table
    ELSE Append(table, state)

\* _save_portfolio_state: INSERT INTO portfolio_state
SavePortfolioState(table, state) == Append(table, state)

\* position of the row with the greatest timestamp among the positions idx
Latest(table, idx) ==
    CHOOSE i \in idx : \A j \in idx : table[j].timestamp <= table[i].timestamp

\* number of rows the query of _check_zone_changes skips
ZoneQueryOffset == 1

\* rows of the table from the most recent on, the first k of them skipped
RECURSIVE SkipLatest(_, _, _)
SkipLatest(table, idx, k) ==
    IF k = 0 \/ idx = {} THEN idx
    ELSE SkipLatest(table, idx \ {Latest(table, idx)}, k - 1)

\* variant: the query without its OFFSET, which returns the newest row
PreviousZone_NoOffset(table) ==
    IF table = <<>> THEN "NONE"
    ELSE table[Latest(table, 1..Len(table))].risk_zone

\* SELECT risk_zone FROM portfolio_state ORDER BY timestamp DESC LIMIT 1 OFFSET 1
PreviousZone(table) ==
    LET rest == SkipLatest(table, 1..Len(table), ZoneQueryOffset)
    IN  IF rest = {} THEN "NONE" ELSE table[Latest(table, rest)].risk_zone

\* variant: an empty result of the query counts as a different zone
ZoneChanged_NoneDiffers(prev_zone, state) == prev_zone # state.risk_zone

\* variant: a change logged only between neighbouring zones
ZoneChanged_Neighbours(prev_zone, state) ==
    /\ prev_zone # "NONE"
    /\ prev_zone # state.risk_zone
    /\ YELLOW \in {prev_zone, state.risk_zone}

\* _check_zone_changes: the condition under which it logs an event
ZoneChanged(prev_zone, state) ==
    prev_zone # "NONE" /\ prev_zone # state.risk_zone

\* the row _log_risk_event inserts for a zone change
ZoneChangeEvent(prev_zone, state, t) ==
    [timestamp |-> t,
     event_type |-> "ZONE_CHANGE",
     portfolio_value |-> state.total_value,
     drawdown_pct |-> state.drawdown_pct,
     action_taken |-> state.recommended_action,
     details |-> <<prev_zone, state.risk_zone>>]

\* _log_risk_event: INSERT INTO risk_events
LogRiskEvent(table, event) == Append(table, event)

\* the peak_tracker table of a database no engine was constructed on yet
NoPeakRow == [peak_value |-> 0, peak_date |-> 0 - 1, updated_at |-> 0 - 1]

\* SELECT COUNT(*) FROM peak_tracker
PeakCount(tracker) == IF tracker = NoPeakRow THEN 0 ELSE 1

\* variant: the seed row written on every construction
InitializeDatabase_Reseed(tracker, t) ==
    [peak_value |-> SeedPeak, peak_date |-> t, updated_at |-> t]

\* _initialize_database: the seed row, inserted when peak_tracker is empty
InitializeDatabase(tracker, t) ==
    IF PeakCount(tracker) = 0
    THEN [peak_value |-> SeedPeak, peak_date |-> t, updated_at |-> t]
    ELSE tracker

\* variant: the table dropped and created again
CreateTableIfNotExists_Recreate(table) == <<>>

\* _initialize_database: CREATE TABLE IF NOT EXISTS
CreateTableIfNotExists(table) == table

(***************************************************************************)
(* Initial state: a Governor constructed on a fresh database               *)
(***************************************************************************)
Init ==
    /\ now = 1
    /\ peak_tracker = InitializeDatabase(NoPeakRow, 0)
    /\ portfolio_state = <<>>
    /\ risk_events = <<>>
    /\ ops = 0
    /\ observed_max = SeedPeak
    /\ pc = [p \in Procs |-> "idle"]
    /\ loc = [p \in Procs |-> NoLocals]
    /\ response = [p \in Procs |-> NoResponse]
    /\ call = NoCall
    /\ input = NoInput
    /\ last_audit_time = NoAuditTime

AllIdle == \A p \in Procs : pc[p] = "idle"

\* variant: the audit time advanced on the error path too
NextAuditTime_Always(returned, t, last) == t

\* audit_risk: self.last_audit_time = datetime.now(), reached only when the
\* try block runs to its return
NextAuditTime(returned, t, last) == IF returned THEN t ELSE last

(***************************************************************************)
(* Sequential operations: one whole call at a time                         *)
(***************************************************************************)
\* what the brokerage collaborator does when audit_risk fetches the holdings:
\* it values them, there is no Kite session, the Kite call raises, or no
\* holding can be priced
OkFeed(v) == [kind |-> "ok", value |-> v]

NoSession == [kind |-> "no_session"]

KiteError == [kind |-> "kite_error"]

Unpriced == [kind |-> "unpriced"]

\* _get_mock_holdings: the values of the three mock holdings
MockHoldings == <<24800, 15900, 21300>>

\* fetch_live_holdings: the values of the holdings it returns
FetchLiveHoldings(feed) ==
    CASE feed.kind = "no_session" -> MockHoldings
      [] feed.kind = "kite_error" -> MockHoldings
      [] feed.kind = "unpriced" -> <<>>
      [] feed.kind = "ok" -> <<feed.value>>

RECURSIVE SumValues(_)
\* total_value = sum(holding.value for holding in holdings)
SumValues(holdings) ==
    IF holdings = <<>> THEN 0
    ELSE Head(holdings) + SumValues(Tail(holdings))

\* the database statement of an audit on which sqlite3 raises, if it runs
Faults == {"none", "read", "peak", "state", "event"}

\* Governor.audit_risk, from the fetch of the holdings to the return, with the
\* collaborator's feed and the statement on which the storage fails
AuditRisk(p, feed, fault) ==
    /\ AllIdle
    /\ ops < MaxAudits
    /\ LET v == SumValues(FetchLiveHoldings(feed))
           peak_read == GetPeakValue(peak_tracker)
           read_raises == fault = "read"
           peak_raises == fault = "peak" /\ IsNewPeak(v, peak_read)
           updated == ~read_raises /\ ~peak_raises
           state == MakeState(v, peak_read, now)
           state_raises ==
               fault = "state" \/ HasKey(portfolio_state, state.timestamp)
           saved == updated /\ ~state_raises
           table == IF saved THEN SavePortfolioState(portfolio_state, state)
                    ELSE portfolio_state
           prev_zone == PreviousZone(table)
           logs == saved /\ ZoneChanged(prev_zone, state)
           event_raises == fault = "event" \/ HasKey(risk_events, now)
           logged == logs /\ ~event_raises
           returned == saved /\ (logs => logged)
       IN  /\ peak_tracker' =
                  IF updated THEN UpdatePeakValue(peak_tracker, v, now)
                  ELSE peak_tracker
           /\ portfolio_state' = table
           /\ risk_events' =
                  IF logged
                  THEN LogRiskEvent(risk_events, ZoneChangeEvent(prev_zone, state, now))
                  ELSE risk_events
           /\ response' = [response EXCEPT ![p] =
                  IF returned THEN MakeResponse(state) ELSE ErrorResponse(now)]
           /\ observed_max' = Max(observed_max, v)
           /\ input' = [op |-> "audit", feed |-> feed.kind, value |-> v,
                        fault |-> fault, raised |-> ~returned]
           /\ last_audit_time' = NextAuditTime(returned, now, last_audit_time)
    /\ ops' = ops + 1
    /\ now' = now + 1
    /\ UNCHANGED <<pc, loc, call>>

\* Governor.audit_risk with a valued portfolio and a working store
Audit(p, v) == AuditRisk(p, OkFeed(v), "none")

\* CPPIEngine._update_peak_value called on its own
UpdatePeak(v) ==
    /\ AllIdle
    /\ ops < MaxAudits
    /\ peak_tracker' = UpdatePeakValue(peak_tracker, v, now)
    /\ observed_max' = Max(observed_max, v)
    /\ input' = [op |-> "update", value |-> v]
    /\ ops' = ops + 1
    /\ now' = now + 1
    /\ UNCHANGED <<portfolio_state, risk_events, pc, loc, response, call,
                   last_audit_time>>

\* Governor(): a new Governor and CPPIEngine on the existing database
Construct ==
    /\ AllIdle
    /\ ops < MaxAudits
    /\ peak_tracker' = InitializeDatabase(peak_tracker, now)
    /\ portfolio_state' = CreateTableIfNotExists(portfolio_state)
    /\ risk_events' = CreateTableIfNotExists(risk_events)
    /\ input' = [op |-> "construct"]
    /\ ops' = ops + 1
    /\ now' = now + 1
    /\ UNCHANGED <<observed_max, pc, loc, response, call, last_audit_time>>

Next ==
    \/ \E v \in Values : Audit("handle_connect", v)
    \/ \E v \in Values : UpdatePeak(v)

Spec == Init /\ [][Next]_vars

\* the feeds of the audits in the specification with failures
Feeds == {OkFeed(v) : v \in ConcValues} \cup {NoSession, KiteError, Unpriced}

\* sequential operations with an unavailable valuation and a failing store
NextFaults ==
    \/ \E feed \in Feeds, fault \in Faults :
           AuditRisk("handle_connect", feed, fault)
    \/ \E v \in ConcValues : UpdatePeak(v)
    \/ Construct

SpecFaults == Init /\ [][NextFaults]_vars

(***************************************************************************)
(* Interleaved audits: two threads share the Governor and the store.       *)
(* Every sqlite3.connect block is one transaction, so each thread moves    *)
(* from one database statement of audit_risk to the next.                  *)
(***************************************************************************)
\* holdings = self.fetch_live_holdings(); total_value = sum(...)
AuditBegin(p, v, limit) ==
    /\ pc[p] = "idle"
    /\ ops < limit
    /\ loc' = [loc EXCEPT ![p] = [NoLocals EXCEPT !.total_value = v]]
    /\ pc' = [pc EXCEPT ![p] = "get_peak"]
    /\ observed_max' = Max(observed_max, v)
    /\ ops' = ops + 1
    /\ UNCHANGED <<now, peak_tracker, portfolio_state, risk_events, response, call, input, last_audit_time>>

AuditStart(p, v) == AuditBegin(p, v, MaxConcAudits)

\* peak_value = self.cppi._get_peak_value()
AuditGetPeak(p) ==
    /\ pc[p] = "get_peak"
    /\ loc' = [loc EXCEPT ![p].peak_value = GetPeakValue(peak_tracker)]
    /\ pc' = [pc EXCEPT ![p] = "update_read"]
    /\ UNCHANGED <<now, peak_tracker, portfolio_state, risk_events, ops,
                   observed_max, response, call, input, last_audit_time>>

\* _update_peak_value: current_peak = self._get_peak_value()
AuditUpdateRead(p) ==
    /\ pc[p] = "update_read"
    /\ loc' = [loc EXCEPT ![p].current_peak = GetPeakValue(peak_tracker)]
    /\ pc' = [pc EXCEPT ![p] = "update_write"]
    /\ UNCHANGED <<now, peak_tracker, portfolio_state, risk_events, ops,
                   observed_max, response, call, input, last_audit_time>>

\* _update_peak_value: if new_value > current_peak: UPDATE peak_tracker
AuditUpdateWrite(p) ==
    /\ pc[p] = "update_write"
    /\ peak_tracker' =
           IF IsNewPeak(loc[p].total_value, loc[p].current_peak)
           THEN WritePeak(peak_tracker, loc[p].total_value, now)
           ELSE peak_tracker
    /\ pc' = [pc EXCEPT ![p] = "compute"]
    /\ UNCHANGED <<now, portfolio_state, risk_events, ops, observed_max, loc,
                   response, call, input, last_audit_time>>

\* audit_risk: from peak_value = max(...) to state = PortfolioState(...)
AuditCompute(p) ==
    /\ pc[p] = "compute"
    /\ loc' = [loc EXCEPT ![p].state =
                  MakeState(loc[p].total_value, loc[p].peak_value, now)]
    /\ pc' = [pc EXCEPT ![p] = "save"]
    /\ UNCHANGED <<now, peak_tracker, portfolio_state, risk_events, ops,
                   observed_max, response, call, input, last_audit_time>>

\* self.cppi._save_portfolio_state(state); a duplicate key raises, and the
\* except branch of audit_risk returns the ERROR result
AuditSave(p) ==
    /\ pc[p] = "save"
    /\ IF HasKey(portfolio_state, loc[p].state.timestamp)
       THEN /\ response' = [response EXCEPT ![p] = ErrorResponse(now)]
            /\ pc' = [pc EXCEPT ![p] = "idle"]
            /\ loc' = [loc EXCEPT ![p] = NoLocals]
            /\ UNCHANGED portfolio_state
       ELSE /\ portfolio_state' = SavePortfolioState(portfolio_state, loc[p].state)
            /\ pc' = [pc EXCEPT ![p] = "check"]
            /\ UNCHANGED <<response, loc>>
    /\ UNCHANGED <<now, peak_tracker, risk_events, ops, observed_max, call, input, last_audit_time>>

\* _check_zone_changes: the SELECT; without a zone change audit_risk returns
AuditCheck(p) ==
    /\ pc[p] = "check"
    /\ LET prev_zone == PreviousZone(portfolio_state)
       IN  IF ZoneChanged(prev_zone, loc[p].state)
           THEN /\ loc' = [loc EXCEPT ![p].prev_zone = prev_zone]
                /\ pc' = [pc EXCEPT ![p] = "log"]
                /\ UNCHANGED response
           ELSE /\ response' = [response EXCEPT ![p] = MakeResponse(loc[p].state)]
                /\ pc' = [pc EXCEPT ![p] = "idle"]
                /\ loc' = [loc EXCEPT ![p] = NoLocals]
    /\ last_audit_time' =
           NextAuditTime(pc'[p] = "idle", now, last_audit_time)
    /\ UNCHANGED <<now, peak_tracker, portfolio_state, risk_events, ops,
                   observed_max, call, input>>

\* _log_risk_event, then the return of audit_risk
AuditLog(p) ==
    /\ pc[p] = "log"
    /\ IF HasKey(risk_events, now)
       THEN /\ response' = [response EXCEPT ![p] = ErrorResponse(now)]
            /\ UNCHANGED risk_events
       ELSE /\ risk_events' = LogRiskEvent(risk_events,
                   ZoneChangeEvent(loc[p].prev_zone, loc[p].state, now))
            /\ response' = [response EXCEPT ![p] = MakeResponse(loc[p].state)]
    /\ pc' = [pc EXCEPT ![p] = "idle"]
    /\ loc' = [loc EXCEPT ![p] = NoLocals]
    /\ last_audit_time' =
           NextAuditTime(~HasKey(risk_events, now), now, last_audit_time)
    /\ UNCHANGED <<now, peak_tracker, portfolio_state, ops, observed_max, call, input>>

\* the wall clock advances
ClockTick(limit) ==
    /\ now < limit
    /\ now' = now + 1
    /\ UNCHANGED <<peak_tracker, portfolio_state, risk_events, ops,
                   observed_max, pc, loc, response, call, input, last_audit_time>>

Tick == ClockTick(MaxTime)

NextConcurrent ==
    \/ \E p \in Procs, v \in ConcValues : AuditStart(p, v)
    \/ \E p \in Procs : AuditGetPeak(p)
    \/ \E p \in Procs : AuditUpdateRead(p)
    \/ \E p \in Procs : AuditUpdateWrite(p)
    \/ \E p \in Procs : AuditCompute(p)
    \/ \E p \in Procs : AuditSave(p)
    \/ \E p \in Procs : AuditCheck(p)
    \/ \E p \in Procs : AuditLog(p)
    \/ Tick

SpecConcurrent == Init /\ [][NextConcurrent]_vars

\* values of the audits where one thread runs two audits while the audit of
\* the other thread is still inside audit_risk
OverlapValues == {85000, 93000}

NextOverlap ==
    \/ \E p \in Procs, v \in OverlapValues : AuditBegin(p, v, MaxOverlapAudits)
    \/ \E p \in Procs : AuditGetPeak(p)
    \/ \E p \in Procs : AuditUpdateRead(p)
    \/ \E p \in Procs : AuditUpdateWrite(p)
    \/ \E p \in Procs : AuditCompute(p)
    \/ \E p \in Procs : AuditSave(p)
    \/ \E p \in Procs : AuditCheck(p)
    \/ \E p \in Procs : AuditLog(p)
    \/ ClockTick(MaxOverlapTime)

SpecOverlap == Init /\ [][NextOverlap]_vars

(***************************************************************************)
(* Direct calls of the pure engine methods on arbitrary arguments          *)
(***************************************************************************)
EngineValues == {-5000, 0, 1, 85000, 90000, 91999, 92000, 92001, 94999, 95000,
                 95001, 97000, 100000, 110000, 200000}

EnginePeaks == {0, 1, 50000, 100000, 110000}

\* drawdowns: those of the values and peaks above, and the two thresholds
EngineDrawdowns ==
    {CalculateDrawdown(v, q) : v \in EngineValues, q \in EnginePeaks}
        \cup {Frac(5, 100), Frac(8, 100)}

\* equity allocations in [0,1], the 0.3 of the action rule included
EngineEquities ==
    {Frac(k, 100) : k \in {0, 29, 30, 31, 50, 100}}
        \cup {Frac(299999, 1000000), Frac(300001, 1000000)}

CallCalculateDrawdown(v, q) ==
    /\ call' = [fn |-> "_calculate_drawdown", current_value |-> v,
                peak_value |-> q, result |-> CalculateDrawdown(v, q)]
    /\ UNCHANGED <<now, peak_tracker, portfolio_state, risk_events, ops,
                   observed_max, pc, loc, response, input, last_audit_time>>

CallDetermineRiskZone(d) ==
    /\ call' = [fn |-> "_determine_risk_zone", drawdown_pct |-> d,
                result |-> DetermineRiskZone(d)]
    /\ UNCHANGED <<now, peak_tracker, portfolio_state, risk_events, ops,
                   observed_max, pc, loc, response, input, last_audit_time>>

CallCalculateCppiAllocation(v, q, z) ==
    /\ call' = [fn |-> "_calculate_cppi_allocation", current_value |-> v,
                peak_value |-> q, risk_zone |-> z,
                result |-> CalculateCppiAllocation(v, q, z)]
    /\ UNCHANGED <<now, peak_tracker, portfolio_state, risk_events, ops,
                   observed_max, pc, loc, response, input, last_audit_time>>

CallGetRecommendedAction(z, e) ==
    /\ call' = [fn |-> "_get_recommended_action", risk_zone |-> z,
                equity_allocation |-> e, result |-> GetRecommendedAction(z, e)]
    /\ UNCHANGED <<now, peak_tracker, portfolio_state, risk_events, ops,
                   observed_max, pc, loc, response, input, last_audit_time>>

NextEngine ==
    \/ \E v \in EngineValues, q \in EnginePeaks : CallCalculateDrawdown(v, q)
    \/ \E d \in EngineDrawdowns : CallDetermineRiskZone(d)
    \/ \E v \in EngineValues, q \in EnginePeaks, z \in RiskZone :
           CallCalculateCppiAllocation(v, q, z)
    \/ \E z \in RiskZone, e \in EngineEquities : CallGetRecommendedAction(z, e)

SpecEngine == Init /\ [][NextEngine]_vars

(***************************************************************************)
(* Configuration: Config() of src/src/config.py and the engine built next  *)
(***************************************************************************)
\* RISK_FLOOR_RATIO in hundredths, the CPPI_MULTIPLIER_* and MAX_DRAWDOWN
RiskConfigs ==
    [floor_ratio : {0 - 10, 0, 50, 80, 85, 90, 95, 100, 150},
     multiplier_green : {0 - 1, 0, 5},
     multiplier_yellow : {0, 3},
     multiplier_red : {0, 1},
     max_drawdown : {3, 10}]

\* _validate_config: the warnings it logs; it never raises
ValidateConfig(risk) ==
    [accepted |-> TRUE,
     warnings |->
         {w \in {"floor_ratio", "max_drawdown"} :
             \/ w = "floor_ratio" /\ (risk.floor_ratio < 80 \/ risk.floor_ratio > 95)
             \/ w = "max_drawdown" /\ (risk.max_drawdown < 5 \/ risk.max_drawdown > 20)}]

\* config = Config() at import, then CPPIEngine.__init__ with its own values
LoadConfig(risk) ==
    /\ call' = [fn |-> "Config", risk |-> risk,
                result |-> ValidateConfig(risk),
                engine_floor_ratio |-> Frac(floor_ratio_num, floor_ratio_den),
                engine_multipliers |-> multipliers]
    /\ UNCHANGED <<now, peak_tracker, portfolio_state, risk_events, ops,
                   observed_max, pc, loc, response, input, last_audit_time>>

NextConfig == \E risk \in RiskConfigs : LoadConfig(risk)

SpecConfig == Init /\ [][NextConfig]_vars

(***************************************************************************)
(* fetch_live_holdings on a Kite session                                   *)
(***************************************************************************)
\* the rows kite_session.holdings() and positions()['net'] return: symbol,
\* quantity, last_price, and the price _get_current_price finds for the symbol
KiteSymbols == {"INFY", "TCS"}
KiteQuantities == {-10, 0, 5, 10}
KiteLastPrices == {0, 200}
KiteYfPrices == {0, 150}

KiteRows ==
    [tradingsymbol : KiteSymbols, quantity : KiteQuantities,
     last_price : KiteLastPrices, yf_price : KiteYfPrices]

KiteData == {<<>>} \cup {<<row>> : row \in KiteRows}

\* significance threshold of a day position, in rupees
SignificantPosition == 1000

\* current_price: last_price, or the yfinance price when last_price <= 0
CurrentPrice(row) ==
    IF row.last_price <= 0 THEN row.yf_price ELSE row.last_price

RECURSIVE ProcessHoldings(_)
\* fetch_live_holdings: the loop over holdings_data
ProcessHoldings(holdings_data) ==
    IF holdings_data = <<>> THEN <<>>
    ELSE LET holding == Head(holdings_data)
             rest == ProcessHoldings(Tail(holdings_data))
         IN  IF holding.quantity <= 0 THEN rest
             ELSE IF CurrentPrice(holding) > 0
                  THEN <<[symbol |-> holding.tradingsymbol,
                          quantity |-> holding.quantity,
                          value |-> holding.quantity * CurrentPrice(holding)]>>
                       \o rest
                  ELSE rest

\* any(h.symbol == symbol for h in holdings)
InHoldings(holdings, symbol) ==
    \E i \in 1..Len(holdings) : holdings[i].symbol = symbol

RECURSIVE ProcessPositions(_, _)
\* fetch_live_holdings: the loop over net_positions, appending to holdings
ProcessPositions(net_positions, holdings) ==
    IF net_positions = <<>> THEN holdings
    ELSE LET position == Head(net_positions)
             value == position.quantity * CurrentPrice(position)
             skipped ==
                 \/ position.quantity = 0
                 \/ InHoldings(holdings, position.tradingsymbol)
             significant ==
                 CurrentPrice(position) > 0 /\ Abs(value) > SignificantPosition
         IN  ProcessPositions(Tail(net_positions),
                 IF ~skipped /\ significant
                 THEN Append(holdings,
                          [symbol |-> position.tradingsymbol \o "*",
                           quantity |-> position.quantity,
                           value |-> value])
                 ELSE holdings)

RECURSIVE SumHoldings(_)
\* audit_risk: total_value = sum(holding.value for holding in holdings)
SumHoldings(holdings) ==
    IF holdings = <<>> THEN 0
    ELSE Head(holdings).value + SumHoldings(Tail(holdings))

\* fetch_live_holdings with a Kite session, and the total audit_risk sums
CallFetchLiveHoldings(holdings_data, net_positions) ==
    /\ call' =
           LET holdings ==
                   ProcessPositions(net_positions,
                                    ProcessHoldings(holdings_data))
           IN  [fn |-> "fetch_live_holdings",
                holdings_data |-> holdings_data,
                net_positions |-> net_positions,
                result |-> holdings,
                total_value |-> SumHoldings(holdings)]
    /\ UNCHANGED <<now, peak_tracker, portfolio_state, risk_events, ops,
                   observed_max, pc, loc, response, input, last_audit_time>>

NextFetch ==
    \E holdings_data \in KiteData, net_positions \in KiteData :
        CallFetchLiveHoldings(holdings_data, net_positions)

SpecFetch == Init /\ [][NextFetch]_vars

\* arguments of the direct allocation calls in the combined specification
AllocValues == {0, 85000, 97000, 110000}

AllocPeaks == {0, 50000, 100000}

\* sequential audits and direct calls of _calculate_cppi_allocation together
NextAll ==
    \/ \E v \in ConcValues : Audit("handle_connect", v)
    \/ \E v \in AllocValues, q \in AllocPeaks, z \in RiskZone :
           CallCalculateCppiAllocation(v, q, z)

SpecAll == Init /\ [][NextAll]_vars

(***************************************************************************)
(* Properties                                                              *)
(***************************************************************************)
\* the zone of the state record written last, "NONE" for an empty ledger
LastRecordedZone(table) ==
    IF table = <<>> THEN "NONE" ELSE table[Len(table)].risk_zone

\* the step appended one record to portfolio_state
StateAppended == Len(portfolio_state') = Len(portfolio_state) + 1

\* the step appended one record to risk_events
EventAppended == Len(risk_events') = Len(risk_events) + 1

\* classify(drawdown) with the thresholds 0.05 and 0.08 scaled by k
Classify(d, k) ==
    CASE FracLeq(d, 5 * k, 100) -> GREEN
      [] ~FracLeq(d, 5 * k, 100) /\ FracLeq(d, 8 * k, 100) -> YELLOW
      [] ~FracLeq(d, 8 * k, 100) -> RED

\* 0 <= f <= k
FracIn(f, k) == FracGeq(f, 0, 1) /\ FracLeq(f, k, 1)

\* the results audit_risk has returned that carry an assessment
Assessments ==
    {response[p] : p \in {q \in Procs : response[q].status \in RiskZone}}

\* the rows of portfolio_state
StateRecords == {portfolio_state[i] : i \in 1..Len(portfolio_state)}

\* C1: across sequential audits and peak updates the stored peak never
\* decreases from one step to the next, and it equals the maximum of the seed
\* peak and every value observed so far.
C1_PeakIsRunningMax ==
    /\ [](peak_tracker.peak_value = observed_max)
    /\ [][peak_tracker'.peak_value >= peak_tracker.peak_value]_vars

\* C1 witness: the peak was raised above the seed, and a later audit saw a
\* lower value
C1_Witness ==
    /\ peak_tracker.peak_value > SeedPeak
    /\ response["handle_connect"].status \in RiskZone
    /\ response["handle_connect"].total_value < peak_tracker.peak_value
    /\ now > peak_tracker.peak_date + 1

\* C2: in every interleaving of two concurrent audits, once all audits have
\* completed the stored peak equals the maximum of the initial peak and the
\* audited values: no new peak is lost or overwritten by a lower one.
C2_NoLostPeak ==
    AllIdle => peak_tracker.peak_value = observed_max

C4_EventsCountZoneChanges ==
    /\ Len(risk_events) =
           Cardinality({i \in 1..(Len(portfolio_state) - 1) :
               portfolio_state[i].risk_zone # portfolio_state[i + 1].risk_zone})
    /\ Len(portfolio_state) <= 1 => risk_events = <<>>
    /\ [i \in 1..Len(portfolio_state) |-> portfolio_state[i].risk_zone]
           = <<GREEN, GREEN, YELLOW>> => Len(risk_events) = 1

\* C4 witness: the audits GREEN, GREEN, YELLOW with their one event
C4_Witness ==
    /\ [i \in 1..Len(portfolio_state) |-> portfolio_state[i].risk_zone]
           = <<GREEN, GREEN, YELLOW>>
    /\ Len(risk_events) = 1
    /\ response["handle_connect"].status = YELLOW

\* C5: floor protection: whenever value <= floor_ratio * peak, the allocation
\* is equity 0 and liquid 1, for every zone and peak; peak = 100000 with
\* value = 85000 is RED with cushion 0 and the emergency action.
C5_FloorProtection ==
    call.fn = "_calculate_cppi_allocation" =>
        /\ (floor_ratio_den * call.current_value
                <= floor_ratio_num * call.peak_value) =>
               (call.result.equity = Zero /\ call.result.liquid = One)
        /\ (call.current_value = 85000 /\ call.peak_value = 100000) =>
               /\ CalculateDrawdown(85000, 100000) = Frac(15, 100)
               /\ DetermineRiskZone(CalculateDrawdown(85000, 100000)) = RED
               /\ Cushion(85000, 100000) = Zero
               /\ GetRecommendedAction(RED, call.result.equity) = EMERGENCY

\* C5 witness: the allocation at value 85000 under peak 100000 with the
\* GREEN multiplier
C5_Witness ==
    /\ call.fn = "_calculate_cppi_allocation"
    /\ call.current_value = 85000
    /\ call.peak_value = 100000
    /\ call.risk_zone = GREEN
    /\ call.result.equity = Zero

\* C6: for value >= 0, peak >= 0 and every zone the computed allocation has
\* 0 <= equity <= 1 and liquid = 1 - equity, and so has every persisted state
\* record and every returned assessment (there on the 0-100 scale).
C6_AllocationInUnitRange ==
    /\ (/\ call.fn = "_calculate_cppi_allocation"
        /\ call.current_value >= 0
        /\ call.peak_value >= 0) =>
           /\ FracIn(call.result.equity, 1)
           /\ call.result.liquid.d = call.result.equity.d
           /\ call.result.liquid.n + call.result.equity.n = call.result.equity.d
    /\ \A r \in StateRecords :
           /\ FracIn(r.equity_allocation, 1)
           /\ r.liquid_allocation.d = r.equity_allocation.d
           /\ r.liquid_allocation.n + r.equity_allocation.n = r.equity_allocation.d
    /\ \A a \in Assessments :
           /\ FracIn(a.equity_allocation_target, 100)
           /\ a.liquid_allocation_target.d = a.equity_allocation_target.d
           /\ a.liquid_allocation_target.n + a.equity_allocation_target.n
                  = 100 * a.equity_allocation_target.d

\* C6 witness: a direct call that reaches the cap of 1, next to an audit that
\* stored and returned a split strictly between 0 and 1
C6_Witness ==
    /\ call.fn = "_calculate_cppi_allocation"
    /\ call.current_value > call.peak_value
    /\ call.result.equity = One
    /\ \E r \in StateRecords :
           r.equity_allocation # Zero /\ r.equity_allocation # One
    /\ \E a \in Assessments :
           a.equity_allocation_target # Zero

\* C7: compute_drawdown(value, peak) is 0 when peak = 0 and otherwise
\* max(0, (peak - value) / peak); it is never negative.
C7_DrawdownNeverNegative ==
    call.fn = "_calculate_drawdown" =>
        /\ call.result.n >= 0
        /\ call.result =
               IF call.peak_value = 0 THEN Zero
               ELSE Frac(Max(0, call.peak_value - call.current_value),
                         call.peak_value)

\* C8: after any sequence of audits, sequential or interleaved, with
\* total_value >= 0, every persisted state record and every returned
\* assessment has its drawdown fraction in [0,1] and its zone equal to
\* classify of that drawdown.
C8_DrawdownAndZoneConsistent ==
    /\ \A r \in StateRecords :
           r.total_value >= 0 =>
               /\ FracIn(r.drawdown_pct, 1)
               /\ r.risk_zone = Classify(r.drawdown_pct, 1)
    /\ \A a \in Assessments :
           a.total_value >= 0 =>
               /\ FracIn(a.drawdown_pct, 100)
               /\ a.status = Classify(a.drawdown_pct, 100)

\* C8 witness: two overlapped audits, the one with the later timestamp saved
\* first, both returned, one of them not GREEN
C8_Witness ==
    /\ Len(portfolio_state) = 2
    /\ portfolio_state[1].timestamp > portfolio_state[2].timestamp
    /\ \A p \in Procs : response[p].status \in RiskZone
    /\ \E r \in StateRecords : r.risk_zone # GREEN

\* C9: classify returns GREEN iff drawdown <= 0.05, YELLOW iff
\* 0.05 < drawdown <= 0.08, RED iff drawdown > 0.08; the boundaries 0.05 and
\* 0.08 map to GREEN and YELLOW.
C9_ClassifyThresholds ==
    call.fn = "_determine_risk_zone" =>
        /\ call.result \in RiskZone
        /\ call.result = GREEN <=> FracLeq(call.drawdown_pct, 5, 100)
        /\ call.result = YELLOW <=>
               (~FracLeq(call.drawdown_pct, 5, 100)
                    /\ FracLeq(call.drawdown_pct, 8, 100))
        /\ call.result = RED <=> ~FracLeq(call.drawdown_pct, 8, 100)
        /\ call.drawdown_pct = Frac(5, 100) => call.result = GREEN
        /\ call.drawdown_pct = Frac(8, 100) => call.result = YELLOW

\* C9 witness: the boundary drawdown 0.08 classified
C9_Witness ==
    /\ call.fn = "_determine_risk_zone"
    /\ call.drawdown_pct = Frac(8, 100)
    /\ call.result = YELLOW

\* C10: recommend is total over the zones and the allocations in [0,1]: RED
\* with equity < 0.3 gives the emergency action, RED with equity >= 0.3
\* reduce-to-target, YELLOW trim-high-beta and GREEN full-allocation-ok.
C10_RecommendTotal ==
    call.fn = "_get_recommended_action" =>
        /\ call.result \in Actions
        /\ (call.risk_zone = RED /\ FracLt(call.equity_allocation, 3, 10)) =>
               call.result = EMERGENCY
        /\ (call.risk_zone = RED /\ FracGeq(call.equity_allocation, 3, 10)) =>
               call.result = REDUCE
        /\ call.risk_zone = YELLOW => call.result = CAUTION
        /\ call.risk_zone = GREEN => call.result = ALL_CLEAR

\* C10 witness: RED with an allocation of exactly 0.3
C10_Witness ==
    /\ call.fn = "_get_recommended_action"
    /\ call.risk_zone = RED
    /\ call.equity_allocation = Frac(3, 10)
    /\ call.result = REDUCE

\* the step is one whole sequential audit
AuditStep == ops' = ops + 1 /\ input'.op = "audit"

\* the step left the three tables as they were
StoreUnchanged ==
    /\ peak_tracker' = peak_tracker
    /\ portfolio_state' = portfolio_state
    /\ risk_events' = risk_events

\* the rows of a table before the step are still its first rows after it
Kept(table, after) ==
    /\ Len(after) >= Len(table)
    /\ \A i \in 1..Len(table) : after[i] = table[i]

\* C11: when a write to the peak, state or event storage fails during an
\* audit, the audit still returns the computed assessment (zone, drawdown,
\* allocation, action) instead of a failure result.
C11_WriteFailureStillReturnsAssessment ==
    (/\ input.op = "audit"
     /\ input.fault \in {"peak", "state", "event"}
     /\ input.raised) =>
        response["handle_connect"].status \in RiskZone

\* C12: if the ZONE_CHANGE event write fails after the state write of the same
\* audit succeeded, the state record stays in the ledger and the audit still
\* returns its computed assessment.
C12_EventFailureKeepsStateAndAssessment ==
    (/\ input.op = "audit"
     /\ input.fault = "event"
     /\ input.raised) =>
        /\ portfolio_state # <<>>
        /\ portfolio_state[Len(portfolio_state)].total_value = input.value
        /\ portfolio_state[Len(portfolio_state)].timestamp = now - 1
        /\ response["handle_connect"].status \in RiskZone
        /\ response["handle_connect"].total_value = input.value

\* C13: whenever an audit ends in failure it has changed nothing: the peak
\* record, the portfolio_state ledger and the risk_events ledger are as they
\* were before the audit started.
C13_FailedAuditChangesNothing ==
    [][(AuditStep /\ response'["handle_connect"].status = "ERROR")
           => StoreUnchanged]_vars

\* C14: when the collaborator cannot supply a valuation (no session, the
\* brokerage call fails, no holding could be priced) the audit aborts with a
\* failure and writes no state record, no event and no peak.
C14_NoValuationAborts ==
    [][(AuditStep /\ input'.feed \in {"no_session", "kite_error", "unpriced"})
           => (response'["handle_connect"].status = "ERROR" /\ StoreUnchanged)]_vars

\* C15: a configuration with floor_ratio outside (0,1) or a non-positive
\* multiplier is rejected at construction, and the engine's floor ratio and
\* multipliers are those of the configuration.
C15_InvalidConfigRejected ==
    call.fn = "Config" =>
        /\ (\/ call.risk.floor_ratio <= 0
            \/ call.risk.floor_ratio >= 100
            \/ call.risk.multiplier_green <= 0
            \/ call.risk.multiplier_yellow <= 0
            \/ call.risk.multiplier_red <= 0) => ~call.result.accepted
        /\ call.result.accepted =>
               /\ call.engine_floor_ratio = Frac(call.risk.floor_ratio, 100)
               /\ call.engine_multipliers[GREEN] = call.risk.multiplier_green
               /\ call.engine_multipliers[YELLOW] = call.risk.multiplier_yellow
               /\ call.engine_multipliers[RED] = call.risk.multiplier_red

\* C16: every successful audit appends exactly one new portfolio_state record,
\* also when it is called again with the same total value.
C16_SuccessfulAuditAppendsOneState ==
    [][(AuditStep /\ response'["handle_connect"].status \in RiskZone) =>
          /\ StateAppended
          /\ Kept(portfolio_state, portfolio_state')
          /\ portfolio_state'[Len(portfolio_state')].total_value = input'.value
          /\ portfolio_state'[Len(portfolio_state')].timestamp = now]_vars

\* C16 witness: three successful audits in a row, the last two with the same
\* total value, have left three records
C16_Witness ==
    /\ Len(portfolio_state) = 3
    /\ portfolio_state[2].total_value = portfolio_state[3].total_value
    /\ portfolio_state[3].timestamp = portfolio_state[2].timestamp + 1
    /\ input.op = "audit"
    /\ ~input.raised

\* C17: if two audits produce the same timestamp key, both state records end
\* up stored and neither audit fails because of the collision.
C17_SameKeyBothStored ==
    [][\A p \in Procs :
          (/\ pc[p] = "save"
           /\ pc'[p] # "save"
           /\ HasKey(portfolio_state, loc[p].state.timestamp)) =>
              /\ StateAppended
              /\ response'[p].status # "ERROR"]_vars

\* C18: the ledger is append-only: no audit, peak update or construction of a
\* new engine modifies or deletes a portfolio_state or risk_events record.
C18_LedgerAppendOnly ==
    [][/\ Kept(portfolio_state, portfolio_state')
       /\ Kept(risk_events, risk_events')]_vars

\* C18 witness: a new engine was constructed on a ledger that holds state
\* records and an event
C18_Witness ==
    /\ input.op = "construct"
    /\ Len(portfolio_state) = 2
    /\ Len(risk_events) = 1

\* C19: an update or audit with a value not above the current peak leaves the
\* whole peak record (value, date, updated_at) unchanged, so the second of two
\* operations in a row with the same value never changes it.
C19_NoWriteAtOrBelowPeak ==
    [][(ops' = ops + 1 /\ input'.op \in {"audit", "update"}) =>
          /\ input'.value <= peak_tracker.peak_value =>
                 peak_tracker' = peak_tracker
          /\ (input.op \in {"audit", "update"} /\ input.value = input'.value) =>
                 peak_tracker' = peak_tracker]_vars

\* C19 witness: an update with the value of a peak that an earlier operation
\* had raised above the seed
C19_Witness ==
    /\ input.op = "update"
    /\ input.value = peak_tracker.peak_value
    /\ peak_tracker.peak_value > SeedPeak
    /\ peak_tracker.peak_date < now - 1

\* C20: for value 0 the allocation is equity 0 and liquid 1 for every peak and
\* zone; for a peak above 0 the drawdown of value 0 is 1, which is RED.
C20_ZeroValue ==
    /\ (call.fn = "_calculate_cppi_allocation" /\ call.current_value = 0) =>
           (call.result.equity = Zero /\ call.result.liquid = One)
    /\ (/\ call.fn = "_calculate_drawdown"
        /\ call.current_value = 0
        /\ call.peak_value > 0) => call.result = One
    /\ (call.fn = "_determine_risk_zone" /\ call.drawdown_pct = One) =>
           call.result = RED

\* C20 witness: the drawdown of value 0 under the seed peak
C20_Witness ==
    /\ call.fn = "_calculate_drawdown"
    /\ call.current_value = 0
    /\ call.peak_value = SeedPeak
    /\ call.result = One

\* the result of the audit just run and the last row of portfolio_state agree
AgreesWithRecord(r, rec) ==
    /\ r.status = rec.risk_zone
    /\ r.total_value = rec.total_value
    /\ r.peak_value = rec.peak_value
    /\ r.action = rec.recommended_action
    /\ r.drawdown_pct = FracTimes(rec.drawdown_pct, 100)
    /\ r.equity_allocation_target = FracTimes(rec.equity_allocation, 100)
    /\ r.liquid_allocation_target = FracTimes(rec.liquid_allocation, 100)
    /\ r.equity_allocation_target.d = r.liquid_allocation_target.d
    /\ r.equity_allocation_target.n + r.liquid_allocation_target.n
           = 100 * r.equity_allocation_target.d
    /\ r.floor_value = Frac(floor_ratio_num * rec.peak_value, floor_ratio_den)
    /\ r.cushion =
           IF floor_ratio_den * rec.total_value
                  > floor_ratio_num * rec.peak_value
           THEN Frac(floor_ratio_den * rec.total_value
                         - floor_ratio_num * rec.peak_value, floor_ratio_den)
           ELSE Zero
    /\ FracGeq(r.cushion, 0, 1)

\* C21: the assessment an audit returns agrees with the state record the same
\* audit persisted: same zone, total value, peak value and action; the
\* returned drawdown and allocation targets are 100 times the stored
\* fractions, the two targets summing to 100; floor_value is floor_ratio times
\* the peak and cushion is max(0, total_value - floor_value), never negative.
C21_AssessmentAgreesWithRecord ==
    (input.op = "audit" /\ ~input.raised) =>
        /\ portfolio_state # <<>>
        /\ portfolio_state[Len(portfolio_state)].timestamp
               = response["handle_connect"].timestamp
        /\ AgreesWithRecord(response["handle_connect"],
                            portfolio_state[Len(portfolio_state)])

\* C21 witness: an audit below the peak returned a non-zero drawdown, a
\* positive cushion and a positive equity target
C21_Witness ==
    /\ input.op = "audit"
    /\ ~input.raised
    /\ response["handle_connect"].total_value
           < response["handle_connect"].peak_value
    /\ ~FracLeq(response["handle_connect"].cushion, 0, 1)
    /\ ~FracLeq(response["handle_connect"].equity_allocation_target, 0, 1)
    /\ ~FracLeq(response["handle_connect"].drawdown_pct, 0, 1)

\* the position in portfolio_state, in insertion order, of the row with key t
RowOf(table, t) == CHOOSE i \in 1..Len(table) : table[i].timestamp = t

\* the zone of the last row written before the row with key t
ZoneWrittenBefore(table, t) ==
    IF RowOf(table, t) = 1 THEN "NONE" ELSE table[RowOf(table, t) - 1].risk_zone

\* C22: in every interleaving of two concurrent audits, the previous zone an
\* audit compares against is the zone of the most recent state record written
\* before its own state write, never the zone of its own record and never
\* that of a record written after it.
C22_PreviousZoneIsLastBeforeOwnWrite ==
    \A p \in Procs :
        pc[p] = "check" =>
            PreviousZone(portfolio_state)
                = ZoneWrittenBefore(portfolio_state, loc[p].state.timestamp)

\* C23: in every sequential audit the peak the audit uses for its drawdown,
\* floor and allocation, persists in its state record and returns equals the
\* peak stored in the peak record right after that audit.
C23_AuditPeakIsStoredPeak ==
    [][(AuditStep /\ StateAppended) =>
          LET rec == portfolio_state'[Len(portfolio_state')]
              r == response'["handle_connect"]
          IN  /\ rec.peak_value = peak_tracker'.peak_value
              /\ r.peak_value = peak_tracker'.peak_value
              /\ r.floor_value
                     = Frac(floor_ratio_num * peak_tracker'.peak_value,
                            floor_ratio_den)
              /\ rec.drawdown_pct
                     = Frac(peak_tracker'.peak_value - rec.total_value,
                            peak_tracker'.peak_value)]_vars

\* C23 witness: an audit with a value above the stored peak has raised the
\* peak record and recorded the new peak
C23_Witness ==
    /\ input.op = "audit"
    /\ portfolio_state # <<>>
    /\ portfolio_state[Len(portfolio_state)].total_value > SeedPeak
    /\ portfolio_state[Len(portfolio_state)].peak_value
           = peak_tracker.peak_value
    /\ peak_tracker.peak_value > SeedPeak
    /\ peak_tracker.updated_at = portfolio_state[Len(portfolio_state)].timestamp

\* the zone of a value under a peak above 0, from the thresholds alone
ZoneOf(total_value, peak_value) ==
    IF 100 * (peak_value - total_value) <= 5 * peak_value THEN GREEN
    ELSE IF 100 * (peak_value - total_value) <= 8 * peak_value THEN YELLOW
    ELSE RED

\* C24: the zone an audit records depends only on the audit's value and the
\* current peak, never on the previous zone; consecutive audits can record
\* GREEN then RED, or RED then GREEN, with no YELLOW in between, and each such
\* jump is logged as a single ZONE_CHANGE event.
C24_ZoneJumpsLoggedOnce ==
    [][(AuditStep /\ StateAppended) =>
          LET rec == portfolio_state'[Len(portfolio_state')]
              prev == LastRecordedZone(portfolio_state)
          IN  /\ rec.risk_zone = ZoneOf(rec.total_value, rec.peak_value)
              /\ {prev, rec.risk_zone} = {GREEN, RED} =>
                     /\ EventAppended
                     /\ risk_events'[Len(risk_events')].event_type
                            = "ZONE_CHANGE"
                     /\ risk_events'[Len(risk_events')].details
                            = <<prev, rec.risk_zone>>]_vars

\* C24 witness: three consecutive audits recorded GREEN, RED, GREEN and each
\* of the two jumps left one event
C24_Witness ==
    /\ Len(portfolio_state) = 3
    /\ portfolio_state[1].risk_zone = GREEN
    /\ portfolio_state[2].risk_zone = RED
    /\ portfolio_state[3].risk_zone = GREEN
    /\ Len(risk_events) = 2
    /\ risk_events[1].details = <<GREEN, RED>>
    /\ risk_events[2].details = <<RED, GREEN>>

\* C25: the total_value an audit derives from the fetched holdings and
\* positions is never negative, for any holdings and net positions, including
\* positions with a negative quantity.
C25_TotalValueNeverNegative ==
    call.fn = "fetch_live_holdings" => call.total_value >= 0

\* the event carries the value, drawdown and action of the state record
EventOfRecord(event, rec) ==
    /\ event.portfolio_value = rec.total_value
    /\ event.drawdown_pct = rec.drawdown_pct
    /\ event.action_taken = rec.recommended_action
    /\ event.details[2] = rec.risk_zone

\* C26: in every reachable state the number of risk events is at most the
\* number of state records minus one (zero with fewer than two state
\* records), and each event's value, drawdown and action equal those of the
\* state record of the audit that logged it.
C26_EventsBoundedByRecords ==
    /\ Len(risk_events) <= Max(0, Len(portfolio_state) - 1)
    /\ \A i \in 1..Len(risk_events) :
           \E j \in 1..Len(portfolio_state) :
               /\ EventOfRecord(risk_events[i], portfolio_state[j])
               /\ risk_events[i].timestamp >= portfolio_state[j].timestamp

\* C27: with the default configuration every assessment an audit produces has
\* equity_allocation <= 0.5, because the audit's peak is never below its
\* value; the maximum 0.5 is attained only when the value equals the peak.
C27_EquityAtMostHalf ==
    /\ \A rec \in StateRecords :
           /\ rec.peak_value >= rec.total_value
           /\ FracLeq(rec.equity_allocation, 1, 2)
           /\ rec.equity_allocation = Frac(1, 2) =>
                  rec.total_value = rec.peak_value
    /\ \A r \in Assessments :
           /\ FracLeq(r.equity_allocation_target, 50, 1)
           /\ r.equity_allocation_target = Frac(50, 1) =>
                  r.total_value = r.peak_value

\* C27 witness: one audit at its peak recorded equity 0.5 and another, below
\* its peak, a positive equity under 0.5
C27_Witness ==
    /\ \E rec \in StateRecords :
           /\ rec.total_value = rec.peak_value
           /\ rec.equity_allocation = Frac(1, 2)
    /\ \E rec \in StateRecords :
           /\ rec.total_value < rec.peak_value
           /\ ~FracLeq(rec.equity_allocation, 0, 1)
           /\ FracLt(rec.equity_allocation, 1, 2)
    /\ \E r \in Assessments : r.equity_allocation_target = Frac(50, 1)

\* C28: every audit classified RED has an equity allocation below 0.3 and so
\* recommends the emergency liquidation; the reduce-to-target recommendation
\* is never produced by an audit.
C28_RedAuditsLiquidate ==
    /\ \A rec \in StateRecords :
           /\ rec.risk_zone = RED =>
                  /\ FracLt(rec.equity_allocation, 3, 10)
                  /\ rec.recommended_action = EMERGENCY
           /\ rec.recommended_action # REDUCE
    /\ \A r \in Assessments :
           /\ r.status = RED =>
                  /\ FracLt(r.equity_allocation_target, 30, 1)
                  /\ r.action = EMERGENCY
           /\ r.action # REDUCE
    /\ \A i \in 1..Len(risk_events) : risk_events[i].action_taken # REDUCE

\* C28 witness: a RED audit above its floor, with a positive equity
\* allocation, recommended the emergency liquidation
C28_Witness ==
    \E rec \in StateRecords :
        /\ rec.risk_zone = RED
        /\ ~FracLeq(rec.equity_allocation, 0, 1)
        /\ rec.recommended_action = EMERGENCY
        /\ \E r \in Assessments :
               r.timestamp = rec.timestamp /\ r.action = EMERGENCY

\* the valuation and allocation fields of an assessment
AssessmentFields ==
    {"total_value", "peak_value", "drawdown_pct", "floor_value", "cushion",
     "equity_allocation_target", "liquid_allocation_target", "action"}

\* C29: audit_risk never propagates an exception: every call returns a result
\* whose status is GREEN, YELLOW, RED or ERROR; an ERROR result carries no
\* valuation or allocation fields; last_audit_time is advanced only by audits
\* that return a non-ERROR result.
C29_AuditAlwaysReturns ==
    /\ [](\A p \in Procs :
             response[p].status = "ERROR" =>
                 DOMAIN response[p] \cap AssessmentFields = {})
    /\ [][AuditStep =>
             /\ response'["handle_connect"].status \in RiskZone \cup {"ERROR"}
             /\ response'["handle_connect"].timestamp = now
             /\ response'["handle_connect"].status = "ERROR" =>
                    last_audit_time' = last_audit_time
             /\ response'["handle_connect"].status \in RiskZone =>
                    last_audit_time' = now]_vars
    /\ [][last_audit_time' # last_audit_time =>
             /\ AuditStep
             /\ response'["handle_connect"].status \in RiskZone]_vars

\* C29 witness: an audit returned ERROR after an earlier audit had returned
\* an assessment, and last_audit_time still holds the earlier audit's instant
C29_Witness ==
    /\ input.op = "audit"
    /\ input.raised
    /\ response["handle_connect"].status = "ERROR"
    /\ last_audit_time # NoAuditTime
    /\ last_audit_time < response["handle_connect"].timestamp
    /\ portfolio_state # <<>>

\* the step constructs a new Governor and CPPIEngine
ConstructStep == ops' = ops + 1 /\ input'.op = "construct"

\* C30: constructing a new engine or Governor on an existing store never
\* resets or lowers the stored peak and never touches the ledger: the seed
\* 100000 is written only into an empty peak table, so the stored peak
\* survives any interleaving of constructions and audits.
C30_ConstructionKeepsStore ==
    /\ [](PeakCount(peak_tracker) = 1 /\ peak_tracker.peak_value >= SeedPeak)
    /\ [][ConstructStep =>
             /\ peak_tracker' = peak_tracker
             /\ portfolio_state' = portfolio_state
             /\ risk_events' = risk_events]_vars
    /\ [][peak_tracker'.peak_value >= peak_tracker.peak_value]_vars

\* C30 witness: a construction on a store whose peak an earlier audit had
\* raised above the seed and whose ledger holds state records and an event
C30_Witness ==
    /\ input.op = "construct"
    /\ peak_tracker.peak_value > SeedPeak
    /\ peak_tracker.updated_at < now - 1
    /\ Len(portfolio_state) = 2
    /\ portfolio_state[1].total_value = peak_tracker.peak_value
    /\ Len(risk_events) = 1

====
